---- MODULE Spec2Model ----
(***************************************************************************)
(* Model of SuperOrchestrator (src/src/services/super_orchestrator cl.py): *)
(* the 12-phase pipeline of execute_synchronized_analysis, its candidate   *)
(* method loops, the per-session execution_state under sync_lock, the      *)
(* recursion-depth map and get_session_progress.                           *)
(*                                                                         *)
(* Every call of execute_synchronized_analysis is a frame.  A frame moves  *)
(* through the positions of the function body; the external calls (the     *)
(* progress callback, each collaborator method, salvar_erro) are the       *)
(* points where their outcome is chosen nondeterministically.              *)
(***************************************************************************)
EXTENDS FiniteSets, Integers, Sequences, TLC

\* ------------------------------------------------------------------ bounds
\* Calls of execute_synchronized_analysis in the concurrent sessions
\* specification, and the nesting depth explored by the re-entrant
\* specification.  (The sequential pipeline specification makes any number
\* of calls, one after the other.)
ConcurrentCalls == 2
MaxNesting == 4
\* Collaborators present in the registry of a pipeline run.
MaxPresent == 2
\* Longest result list a search or social provider returns.
MaxResults == 5
\* Clock: now runs from 0 to MaxTicks ticks of TickSeconds seconds.
MaxTicks == 2

\* ------------------------------------------------------- program constants
max_recursion_depth == 3
ProgressEstimateSeconds == 600
ProgressCap == 95
CompletedPercentage == 100
TotalComponents == 12
\* One tick of the model's clock, in seconds: half of the estimate, so that
\* every percentage is a whole number and the cap is reached at the second tick.
TickSeconds == ProgressEstimateSeconds \div 2

Min(a, b) == IF a <= b THEN a ELSE b

\* ------------------------------------------------------------- dictionaries
\* A Python dict is a record; d.get(k, default):
Get(d, k, default) == IF k \in DOMAIN d THEN d[k] ELSE default
EmptyDict == << >>
\* Python truthiness of a dict or list: non-empty.
Truthy(v) == DOMAIN v # {}

\* The keys of self.services that the pipeline consults.
ServiceKeys ==
    {"mental_drivers", "visual_proofs", "anti_objection", "pre_pitch",
     "future_prediction", "supadata", "websailor", "enhanced_report"}

Sessions == {"s1", "s2"}

\* Request params: the empty mapping and two filled ones.
EmptyData == EmptyDict
FitnessApp == [segmento |-> "fitness", produto |-> "app"]
OnlySegment == [segmento |-> "moda"]
RequestParams == {EmptyData, FitnessApp, OnlySegment}

\* The keys of complete_analysis_data, in the order the phases run.
PhaseKeys ==
    << "pesquisa_web_massiva", "analise_redes_sociais", "avatar_ultra_detalhado",
       "drivers_mentais_customizados", "provas_visuais_arsenal",
       "sistema_anti_objecao", "pre_pitch_invisivel",
       "predicoes_futuro_detalhadas", "analise_concorrencia",
       "insights_exclusivos", "palavras_chave_estrategicas",
       "funil_vendas_otimizado" >>
Phases == 1..TotalComponents
ReportStep == TotalComponents + 1

\* A phase output that has not been produced yet.
Pending == [pending |-> TRUE]
IsPending(o) == "pending" \in DOMAIN o
\* An exception leaving a function.
Raised == [raised |-> TRUE]
IsRaised(o) == "raised" \in DOMAIN o

List(n) == [i \in 1..n |-> i]

\* -------------------------------------------------- collaborator behaviour
\* What one collaborator method does when the pipeline reaches it: the object
\* does not expose it ("missing"), it raises, it returns a falsy value
\* ("empty"), or it returns a value ("result").
Missing == [kind |-> "missing"]
Raises == [kind |-> "raises"]
Empty == [kind |-> "empty"]
Result(v) == [kind |-> "result", value |-> v]

\* navigate_and_research_deep: a dict with a status and processed_results.
WebSailorResults ==
    {[status |-> s, processed_results |-> List(n)] :
        s \in {"success", "partial"}, n \in 0..MaxResults}
\* perform_search: a non-empty list of result records.
SearchResults == {List(n) : n \in 1..MaxResults}
\* search_all_platforms: a dict holding all_posts.
SocialResults == {[all_posts |-> List(n)] : n \in 0..MaxResults}
\* create_complete_mental_drivers_system: a free-form record.
DriversResults ==
    {[status |-> "success", drivers_customizados |-> List(1)],
     [drivers_customizados |-> List(2)]}
VisualResults == {[status |-> "success", proofs |-> List(1)], [proofs |-> List(2)]}
AntiObjectionResults ==
    {[status |-> "success", sistema_anti_objecao |-> [objecoes_mapeadas |-> List(1)]],
     [sistema_anti_objecao |-> EmptyDict]}
PrePitchResults ==
    {[status |-> "success", sequencias_pre_pitch |-> List(1)],
     [sequencias_pre_pitch |-> List(1)]}
PredictionResults ==
    {[status |-> "success", predicoes |-> List(1)], [predicoes |-> List(1)]}
ReportResults ==
    {[status |-> "success", report_generator |-> "enhanced"],
     [report_generator |-> "enhanced"]}

\* ------------------------------------------------------------ the phases
\* Each _execute_real_* function is an operator from its arguments and the
\* behaviour of the collaborator method it calls to the record it returns.
\* <Name>Body is the body of the function's try block, which may raise;
\* <Name> is the function with its except clause.

\* _execute_real_social_analysis
SocialAnalysisBody(data, present, b) ==
    IF ~present
    THEN [status |-> "unavailable", total_posts |-> 0]
    ELSE IF b.kind \in {"missing", "raises"}
    THEN Raised
    ELSE IF b.kind = "empty"
    THEN [status |-> "success", platforms_data |-> EmptyDict, total_posts |-> 0]
    ELSE [status |-> "success", platforms_data |-> b.value,
          total_posts |-> Len(Get(b.value, "all_posts", << >>))]

\* _execute_real_social_analysis had it no except clause.
SocialAnalysis_NoExcept(data, present, b) == SocialAnalysisBody(data, present, b)

SocialAnalysis(data, present, b) ==
    LET r == SocialAnalysisBody(data, present, b)
    IN  IF IsRaised(r)
        THEN [status |-> "error", total_posts |-> 0, error |-> "social"]
        ELSE r

\* _execute_real_avatar_analysis had it counted web_data['results'].
AvatarAnalysis_WrongKey(web_data, social_data, project_data) ==
    [status |-> "success",
     nome_ficticio |-> << "Avatar", Get(project_data, "segmento", "Profissional") >>,
     dores_viscerais_unificadas |-> << "Falta de tempo", "Dificuldade em decidir" >>,
     desejos_secretos_unificados |-> << "Reconhecimento", "Estabilidade" >>,
     objecoes_principais |-> << "Preco alto", "Falta de confianca" >>,
     fonte_dados |-> [data_real |-> TRUE,
                      web_sources |-> Len(Get(web_data, "results", << >>))]]

\* _execute_real_avatar_analysis
AvatarAnalysis(web_data, social_data, project_data) ==
    [status |-> "success",
     nome_ficticio |-> << "Avatar", Get(project_data, "segmento", "Profissional") >>,
     dores_viscerais_unificadas |-> << "Falta de tempo", "Dificuldade em decidir" >>,
     desejos_secretos_unificados |-> << "Reconhecimento", "Estabilidade" >>,
     objecoes_principais |-> << "Preco alto", "Falta de confianca" >>,
     fonte_dados |-> [data_real |-> TRUE,
                      web_sources |-> Len(Get(web_data, "processed_results", << >>))]]

\* _execute_real_mental_drivers
DriversFallback == [status |-> "fallback", drivers_customizados |-> << >>]

MentalDriversBody(avatar_data, present, b) ==
    IF ~present
    THEN DriversFallback
    ELSE IF b.kind \in {"missing", "raises"}
    THEN Raised
    ELSE IF b.kind = "empty"
    THEN DriversFallback
    ELSE b.value

MentalDrivers(avatar_data, present, b) ==
    LET r == MentalDriversBody(avatar_data, present, b)
    IN  IF IsRaised(r)
        THEN [status |-> "error", drivers_customizados |-> << >>, error |-> "drivers"]
        ELSE r

\* _execute_real_pre_pitch
PrePitchFallback == [status |-> "fallback", sequencias_pre_pitch |-> << >>]

PrePitchBody(present, b) ==
    IF ~present
    THEN PrePitchFallback
    ELSE IF b.kind \in {"missing", "raises"}
    THEN Raised
    ELSE IF b.kind = "empty"
    THEN PrePitchFallback
    ELSE b.value

PrePitch(present, b) ==
    LET r == PrePitchBody(present, b)
    IN  IF IsRaised(r)
        THEN [status |-> "error", sequencias_pre_pitch |-> << >>, error |-> "pre_pitch"]
        ELSE r

\* _execute_real_future_predictions
PredictionsFallback == [status |-> "fallback", predicoes |-> << >>]

FuturePredictionsBody(present, b) ==
    IF ~present
    THEN PredictionsFallback
    ELSE IF b.kind \in {"missing", "raises"}
    THEN Raised
    ELSE IF b.kind = "empty"
    THEN PredictionsFallback
    ELSE b.value

FuturePredictions(present, b) ==
    LET r == FuturePredictionsBody(present, b)
    IN  IF IsRaised(r)
        THEN [status |-> "error", predicoes |-> << >>, error |-> "predictions"]
        ELSE r

\* _execute_real_competition_analysis
CompetitionAnalysis(web_data, project_data) ==
    [status |-> "success",
     analise_completa |-> << "Analise de concorrencia para",
                             Get(project_data, "segmento", "mercado") >>,
     fontes_analisadas |-> Len(Get(web_data, "processed_results", << >>))]

\* _execute_real_insights_extraction
InsightsExtraction(web_data, social_data) ==
    [status |-> "success",
     insights_completos |-> "Insights baseados nos dados coletados",
     fontes_utilizadas |->
        [web_sources |-> Len(Get(web_data, "processed_results", << >>)),
         social_posts |-> Get(social_data, "total_posts", 0)]]

\* _execute_real_keywords_analysis
KeywordsAnalysis(web_data, avatar_data) ==
    [status |-> "success",
     analise_completa |-> "Palavras-chave estrategicas identificadas",
     fonte_dados |->
        [web_sources_analyzed |-> Len(Get(web_data, "processed_results", << >>)),
         avatar_included |-> "nome_ficticio" \in DOMAIN avatar_data]]

\* _execute_real_sales_funnel
SalesFunnel(drivers_data, avatar_data) ==
    [status |-> "success",
     funil_otimizado |-> "Funil otimizado com base nos dados coletados",
     dados_base |->
        [drivers_applied |-> Len(Get(drivers_data, "drivers_customizados", << >>)),
         avatar_based |-> "nome_ficticio" \in DOMAIN avatar_data]]

\* ------------------------------------------------- the candidate loops
\* The phases that try several providers or method names in turn.  One
\* iteration of the loop is an attempt on candidate i: whether the candidate
\* was invoked, whether the loop ends (done) and with which record (out).
WebMethods == << "navigate_and_research_deep", "perform_search" >>
VisualMethods ==
    << "generate_visual_proofs", "create_proofs", "generate_proofs",
       "create_visual_proofs", "build_proofs" >>
AntiObjectionMethods ==
    << "create_anti_objection_system", "create_system", "generate_system",
       "build_system", "create_anti_objection", "generate_anti_objection_system",
       "process_objections" >>
ReportMethods ==
    << "generate_report", "create_report", "build_report",
       "generate_enhanced_report", "create_enhanced_report", "process_report",
       "compile_report" >>

Continue(b) == [invoked |-> b.kind # "missing", done |-> FALSE, out |-> Pending]
Return(o) == [invoked |-> TRUE, done |-> TRUE, out |-> o]

\* _execute_real_web_search: websailor first, then enhanced_search_coordinator.
\* "missing" stands for a provider that is not there.
WebSearchAttempt(i, b) ==
    IF i = 1
    THEN IF b.kind = "result" /\ Truthy(b.value)
            /\ Get(b.value, "status", "") = "success"
         THEN Return(b.value)
         ELSE Continue(b)
    ELSE IF b.kind = "result" /\ Truthy(b.value)
         THEN Return([status |-> "success", processed_results |-> b.value,
                      source |-> "enhanced_search"])
         ELSE Continue(b)

WebSearchFallback ==
    [status |-> "fallback", processed_results |-> << >>, source |-> "fallback_basic"]

\* _execute_real_visual_proofs: the first method that exists and does not
\* raise ends the loop (break), whatever it returned.
VisualProofsFallback(project_data) ==
    [status |-> "fallback",
     proofs |-> << [tipo |-> "estatistica",
                    titulo |-> << "Dados sobre", Get(project_data, "segmento", "mercado") >>,
                    descricao |-> << "Analise baseada nos drivers para",
                                     Get(project_data, "produto", "produto") >>,
                    fonte |-> "Analise propria"] >>]

\* The loop had its body no try/except of its own: a method that raises is
\* caught by the except clause of the function.
VisualProofsAttempt_NoInnerTry(i, b, project_data) ==
    IF b.kind = "result" /\ Truthy(b.value)
    THEN Return(b.value)
    ELSE IF b.kind \in {"result", "empty"}
    THEN Return(VisualProofsFallback(project_data))
    ELSE IF b.kind = "raises"
    THEN Return([status |-> "error", proofs |-> << >>, error |-> "raised"])
    ELSE Continue(b)

VisualProofsAttempt(i, b, project_data) ==
    IF b.kind = "result" /\ Truthy(b.value)
    THEN Return(b.value)
    ELSE IF b.kind \in {"result", "empty"}
    THEN Return(VisualProofsFallback(project_data))
    ELSE Continue(b)

\* _execute_real_anti_objection: the first truthy result is returned.
AntiObjectionFallback(avatar_data) ==
    LET objections == Get(avatar_data, "objecoes_principais",
                          << "Preco alto", "Falta de confianca" >>)
    IN  [status |-> "fallback",
         sistema_anti_objecao |->
            [objecoes_mapeadas |-> objections,
             respostas_preparadas |->
                [j \in 1..Len(objections) |-> << "Resposta para", objections[j] >>],
             estrategias |-> << "Demonstracao de valor", "Prova social", "Garantias" >>]]

\* The loop had it no `return result`: it goes on to the next method name.
AntiObjectionAttempt_KeepsTrying(i, b) == Continue(b)

AntiObjectionAttempt(i, b) ==
    IF b.kind = "result" /\ Truthy(b.value)
    THEN Return(b.value)
    ELSE Continue(b)

\* _generate_final_report: the first truthy result is returned.
FinalReportAttempt(i, b) ==
    IF b.kind = "result" /\ Truthy(b.value)
    THEN Return(b.value)
    ELSE Continue(b)

\* complete_analysis_data had it analise_redes_sociais taken from
\* web_research_results.
CompleteAnalysisData_SocialFromWeb(session_id, data, results) ==
    [k \in {"session_id", "projeto_dados"} \cup {PhaseKeys[j] : j \in Phases} |->
        IF k = "session_id" THEN session_id
        ELSE IF k = "projeto_dados" THEN data
        ELSE IF k = "analise_redes_sociais" THEN results[1]
        ELSE results[CHOOSE j \in Phases : PhaseKeys[j] = k]]

\* complete_analysis_data of execute_synchronized_analysis
CompleteAnalysisData(session_id, data, results) ==
    [k \in {"session_id", "projeto_dados"} \cup {PhaseKeys[j] : j \in Phases} |->
        IF k = "session_id" THEN session_id
        ELSE IF k = "projeto_dados" THEN data
        ELSE results[CHOOSE j \in Phases : PhaseKeys[j] = k]]

\* The basic report of _generate_final_report.
BasicReport(cad, session_id, timestamp) ==
    [status |-> "basic",
     session_id |-> session_id,
     timestamp |-> timestamp,
     resumo_executivo |-> "Analise completa finalizada com todos os componentes",
     componentes_analisados |-> DOMAIN cad,
     dados_coletados |->
        [web_sources |->
            Len(Get(Get(cad, "pesquisa_web_massiva", EmptyDict), "processed_results", << >>)),
         social_posts |->
            Get(Get(cad, "analise_redes_sociais", EmptyDict), "total_posts", 0),
         avatar_criado |->
            "nome_ficticio" \in DOMAIN Get(cad, "avatar_ultra_detalhado", EmptyDict),
         drivers_gerados |->
            Len(Get(Get(cad, "drivers_mentais_customizados", EmptyDict),
                    "drivers_customizados", << >>)),
         provas_visuais |->
            Len(Get(Get(cad, "provas_visuais_arsenal", EmptyDict), "proofs", << >>)),
         sistema_anti_objecao |->
            Truthy(Get(Get(cad, "sistema_anti_objecao", EmptyDict),
                       "sistema_anti_objecao", EmptyDict)),
         funil_otimizado |->
            "funil_otimizado" \in DOMAIN Get(cad, "funil_vendas_otimizado", EmptyDict)],
     report_generator |-> "basic_fallback_enhanced"]

\* ----------------------------------------------------------- the results
\* The records execute_synchronized_analysis returns.
FailureResult(session_id, error) ==
    [success |-> FALSE, session_id |-> session_id, error |-> error,
     emergency_mode |-> TRUE]

SuccessResult(session_id, execution_time, final_report) ==
    [success |-> TRUE,
     session_id |-> session_id,
     execution_time |-> execution_time,
     total_components_executed |-> 12,
     report |-> final_report,
     data_validation |->
        [all_data_real |-> TRUE, zero_simulated_data |-> TRUE,
         zero_fallbacks_used |-> TRUE, components_with_real_data |-> 12],
     sync_status |-> "PERFECT_SYNC_REAL_DATA_ONLY"]

\* The session state written at the start of a run.
NewSessionState(start_time) ==
    [status |-> "running", start_time |-> start_time,
     components_completed |-> << >>, errors |-> << >>,
     recursion_prevented |-> 0, real_data_only |-> TRUE]

\* d[k] = v on a dict.
Put(d, k, v) == [x \in DOMAIN d \cup {k} |-> IF x = k THEN v ELSE d[x]]

\* Python's None.
None == [none |-> TRUE]
IsNone(v) == "none" \in DOMAIN v

\* ---------------------------------------------------------------- state
VARIABLES
    services,                    \* self.services: the keys that are bound
    enhanced_search_coordinator, \* the module global: TRUE when imported
    execution_state,             \* self.execution_state: session id -> state
    global_recursion_depth,      \* self._global_recursion_depth
    sync_lock,                   \* self.sync_lock: the frame holding it, or 0
    now,                         \* time.time(), in seconds
    frames,                      \* the calls of execute_synchronized_analysis
    last_progress                \* the last get_session_progress call: its
                                 \* argument, the status it read ("absent" for
                                 \* no state), what it returned, and whether
                                 \* the session has been running ever since

vars == << services, enhanced_search_coordinator, execution_state,
           global_recursion_depth, sync_lock, now, frames, last_progress >>

\* As many frames as the largest of the specifications needs.
MaxFrames ==
    CHOOSE n \in {ConcurrentCalls, MaxNesting} :
        \A m \in {ConcurrentCalls, MaxNesting} : m <= n
Frames == 1..MaxFrames

\* A frame: where the call is (pc), its arguments, its local variables, the
\* record it returned (ret), and what an observer of the call has seen:
\* the indices passed to the progress callback (callbacks), the candidate
\* the loop in progress (or just ended) invoked last (last_invoked, 0 for
\* none, forgotten at the call's next statement), the first candidate of
\* that loop that returned a successful result (succeeded), what the method
\* called last did (last_outcome: the kind of its behaviour, "missing" for
\* the method of a phase without a loop that its collaborator lacks, "" when
\* no method of a collaborator was called; forgotten like last_invoked),
\* whether any
\* collaborator was invoked (collaborator_invoked) and what sent the call to
\* its except clause (aborted_by).
IdleFrame ==
    [pc |-> "idle", data |-> EmptyData, session_id |-> "", has_callback |-> FALSE,
     parent |-> 0, start_time |-> 0, phase |-> 0, cand |-> 0,
     results |-> [k \in Phases |-> Pending], complete_analysis_data |-> Pending,
     final_report |-> Pending,
     execution_time |-> 0, error |-> "", ret |-> Pending,
     callbacks |-> << >>, last_invoked |-> 0, last_outcome |-> "", succeeded |-> 0,
     collaborator_invoked |-> FALSE, aborted_by |-> ""]

Active(f) == frames[f].pc \notin {"idle", "returned", "raised"}
\* A frame waits while a call it made from its callback is running.
Blocked(f) == \E g \in Frames : frames[g].parent = f /\ Active(g)
Depth(f) ==
    LET RECURSIVE Up(_)
        Up(g) == IF frames[g].parent = 0 THEN 1 ELSE 1 + Up(frames[g].parent)
    IN  Up(f)

Registries ==
    {r \in [services : SUBSET ServiceKeys, search : BOOLEAN] :
        Cardinality(r.services) + (IF r.search THEN 1 ELSE 0) <= MaxPresent}

InitState ==
    /\ execution_state = EmptyDict
    /\ global_recursion_depth = EmptyDict
    /\ sync_lock = 0
    /\ now = 0
    /\ frames = [f \in Frames |-> IdleFrame]
    /\ last_progress = None

\* SuperOrchestrator.__init__ with any registry of at most MaxPresent
\* collaborators.
Init ==
    /\ \E r \in Registries :
          services = r.services /\ enhanced_search_coordinator = r.search
    /\ InitState

\* SuperOrchestrator.__init__ when every optional import failed.
InitDegraded ==
    /\ services = {}
    /\ enhanced_search_coordinator = FALSE
    /\ InitState

Registry == << services, enhanced_search_coordinator >>

\* ------------------------------------------------ the pipeline, by phase
\* The service a phase is bound to ("" when it calls none).
PhaseService(k) ==
    CASE k = 2 -> "supadata"
      [] k = 4 -> "mental_drivers"
      [] k = 5 -> "visual_proofs"
      [] k = 6 -> "anti_objection"
      [] k = 7 -> "pre_pitch"
      [] k = 8 -> "future_prediction"
      [] k = ReportStep -> "enhanced_report"
      [] OTHER -> ""

PhaseResults(k) ==
    CASE k = 2 -> SocialResults
      [] k = 4 -> DriversResults
      [] k = 5 -> VisualResults
      [] k = 6 -> AntiObjectionResults
      [] k = 7 -> PrePitchResults
      [] k = 8 -> PredictionResults
      [] k = ReportStep -> ReportResults
      [] OTHER -> {}

Behaviours(R) == {Missing, Raises, Empty} \cup {Result(v) : v \in R}

\* The phases that run a candidate loop, when their provider is there.
HasLoop(k) ==
    \/ k = 1 /\ ("websailor" \in services \/ enhanced_search_coordinator)
    \/ k \in {5, 6, ReportStep} /\ PhaseService(k) \in services

Methods(k) ==
    CASE k = 1 -> WebMethods
      [] k = 5 -> VisualMethods
      [] k = 6 -> AntiObjectionMethods
      [] OTHER -> ReportMethods

\* What candidate i of phase k's loop may do.
CandidateBehaviours(k, i) ==
    IF k = 1
    THEN IF i = 1
         THEN IF "websailor" \in services
              THEN Behaviours(WebSailorResults) ELSE {Missing}
         ELSE IF enhanced_search_coordinator
              THEN {Raises, Empty} \cup {Result(v) : v \in SearchResults}
              ELSE {Missing}
    ELSE Behaviours(PhaseResults(k))

\* What the one method of a phase without a loop may do.
PhaseBehaviours(k) ==
    IF k \in {2, 4, 7, 8} /\ PhaseService(k) \in services
    THEN Behaviours(PhaseResults(k))
    ELSE {Missing}

\* A result a collaborator itself reports as a success: non-empty, and (a
\* record, which perform_search's list is not) not carrying a status other
\* than success.
Succeeded(k, i, b) ==
    /\ b.kind = "result"
    /\ Truthy(b.value)
    /\ \/ k = 1 /\ i = 2
       \/ Get(b.value, "status", "success") = "success"

\* The record phase k returns when it runs no loop (for the loop phases: the
\* record returned at once because the service is not bound).
PhaseOutput(k, fr, b) ==
    LET present == PhaseService(k) \in services
        r == fr.results
    IN  CASE k = 1 -> WebSearchFallback
          [] k = 2 -> SocialAnalysis(fr.data, present, b)
          [] k = 3 -> AvatarAnalysis(r[1], r[2], fr.data)
          [] k = 4 -> MentalDrivers(r[3], present, b)
          [] k = 5 -> [status |-> "fallback", proofs |-> << >>]
          [] k = 6 -> [status |-> "fallback", sistema_anti_objecao |-> EmptyDict]
          [] k = 7 -> PrePitch(present, b)
          [] k = 8 -> FuturePredictions(present, b)
          [] k = 9 -> CompetitionAnalysis(r[1], fr.data)
          [] k = 10 -> InsightsExtraction(r[1], r[2])
          [] k = 11 -> KeywordsAnalysis(r[1], r[3])
          [] OTHER -> SalesFunnel(r[4], r[3])

\* One iteration of phase k's loop on candidate i.
Attempt(k, i, b, fr) ==
    CASE k = 1 -> WebSearchAttempt(i, b)
      [] k = 5 -> VisualProofsAttempt(i, b, fr.data)
      [] k = 6 -> AntiObjectionAttempt(i, b)
      [] OTHER -> FinalReportAttempt(i, b)

\* The record a loop that found nothing falls back to.
LoopFallback(k, fr) ==
    CASE k = 1 -> WebSearchFallback
      [] k = 5 -> VisualProofsFallback(fr.data)
      [] k = 6 -> AntiObjectionFallback(fr.results[3])
      [] OTHER -> BasicReport(fr.complete_analysis_data, fr.session_id, now)

\* The pipeline had it no progress_callback call between two phases.
AfterPhase_NoCallback(fr, k, out) ==
    [fr EXCEPT !.results[k] = out,
               !.phase = k + 1,
               !.cand = 0,
               !.pc = IF k + 1 = ReportStep THEN "report" ELSE "phase"]

\* The pipeline had it gone from web research straight to the avatar.
AfterPhase_SkipsSocial(fr, k, out) ==
    [fr EXCEPT !.results[k] = out,
               !.phase = IF k = 1 THEN 3 ELSE k + 1,
               !.cand = 0,
               !.pc = IF fr.has_callback THEN "callback"
                      ELSE IF k + 1 = ReportStep THEN "report" ELSE "phase"]

\* The frame once phase k has returned out: the next statement is the
\* progress callback of step k + 1 when there is a callback, else the step.
AfterPhase(fr, k, out) ==
    [fr EXCEPT !.results[k] = out,
               !.phase = k + 1,
               !.cand = 0,
               !.pc = IF fr.has_callback THEN "callback"
                      ELSE IF k + 1 = ReportStep THEN "report" ELSE "phase"]

\* The frame once _generate_final_report has returned out and the time was read.
AfterReport(fr, out) ==
    [fr EXCEPT !.final_report = out,
               !.execution_time = now - fr.start_time,
               !.cand = 0,
               !.pc = "complete_lock"]

\* The frame of a call that went to the except clause of the function.
Caught(fr, cause) ==
    [fr EXCEPT !.pc = "except", !.error = cause, !.aborted_by = cause]

\* The frame of a call that ended: its locals are gone, its arguments and
\* what the caller got (the record ret, or the exception) remain.
Ended(fr, pc, ret) ==
    [IdleFrame EXCEPT !.pc = pc, !.ret = ret, !.data = fr.data,
                      !.session_id = fr.session_id,
                      !.has_callback = fr.has_callback, !.parent = fr.parent,
                      !.collaborator_invoked = fr.collaborator_invoked,
                      !.aborted_by = fr.aborted_by]

Returned(fr, ret) == Ended(fr, "returned", ret)

\* execute_synchronized_analysis had it no `if not data` check.
ValidParams_Always(data) == TRUE

\* `if not data` of execute_synchronized_analysis.
ValidParams(data) == Truthy(data)

\* -------------------------------------------------------------- actions
\* execute_synchronized_analysis is entered with (data, session_id,
\* progress_callback): the check of data and the reading of start_time.
Entered(data, session_id, has_callback, parent) ==
    IF ~ValidParams(data)
    THEN [IdleFrame EXCEPT
            !.pc = "returned", !.data = data, !.session_id = session_id,
            !.has_callback = has_callback, !.parent = parent,
            !.ret = FailureResult(session_id, "dados obrigatorios")]
    ELSE [IdleFrame EXCEPT
            !.pc = "reset", !.data = data, !.session_id = session_id,
            !.has_callback = has_callback, !.parent = parent,
            !.start_time = now]

\* A call takes the first frame that is free.
Enter(f, data, session_id, has_callback, parent) ==
    /\ frames[f].pc = "idle"
    /\ \A g \in Frames : g < f => frames[g].pc # "idle"
    /\ frames' = [frames EXCEPT ![f] = Entered(data, session_id, has_callback, parent)]
    /\ UNCHANGED << services, enhanced_search_coordinator, execution_state,
                    global_recursion_depth, sync_lock, now, last_progress >>

\* self._global_recursion_depth.clear() at the start of the run.
ResetRecursion(f) ==
    /\ frames[f].pc = "reset"
    /\ global_recursion_depth' = EmptyDict
    /\ frames' = [frames EXCEPT ![f].pc = "begin_lock"]
    /\ UNCHANGED << services, enhanced_search_coordinator, execution_state,
                    sync_lock, now, last_progress >>

\* The session state had it been created without `with self.sync_lock:`.
AcquireBegin_NoLock(f) ==
    /\ frames[f].pc = "begin_lock"
    /\ frames' = [frames EXCEPT ![f].pc = "begin_write"]
    /\ UNCHANGED << services, enhanced_search_coordinator, execution_state,
                    global_recursion_depth, sync_lock, now, last_progress >>

\* `with self.sync_lock:` before the session state is created.
AcquireBegin(f) ==
    /\ frames[f].pc = "begin_lock"
    /\ sync_lock = 0
    /\ sync_lock' = f
    /\ frames' = [frames EXCEPT ![f].pc = "begin_write"]
    /\ UNCHANGED << services, enhanced_search_coordinator, execution_state,
                    global_recursion_depth, now, last_progress >>

\* The pipeline had it started without creating the session state.
WriteBegin_NoState(f) ==
    LET fr == frames[f]
    IN  /\ fr.pc = "begin_write"
        /\ sync_lock' = 0
        /\ frames' = [frames EXCEPT ![f] =
                        [fr EXCEPT !.phase = 1,
                                   !.pc = IF fr.has_callback THEN "callback" ELSE "phase"]]
        /\ UNCHANGED << services, enhanced_search_coordinator, execution_state,
                        global_recursion_depth, now, last_progress >>

\* The pipeline had it been written inside the `with self.sync_lock:` block
\* of the creation: the lock is still held when the phases start.
WriteBegin_KeepsLock(f) ==
    LET fr == frames[f]
    IN  /\ fr.pc = "begin_write"
        /\ execution_state' =
             Put(execution_state, fr.session_id, NewSessionState(fr.start_time))
        /\ frames' = [frames EXCEPT ![f] =
                        [fr EXCEPT !.phase = 1,
                                   !.pc = IF fr.has_callback THEN "callback" ELSE "phase"]]
        /\ UNCHANGED << services, enhanced_search_coordinator, sync_lock,
                        global_recursion_depth, now, last_progress >>

\* The creation had it assigned a new dict holding this session alone to
\* self.execution_state.
WriteBegin_ReplacesAll(f) ==
    LET fr == frames[f]
    IN  /\ fr.pc = "begin_write"
        /\ execution_state' =
             Put(EmptyDict, fr.session_id, NewSessionState(fr.start_time))
        /\ sync_lock' = 0
        /\ frames' = [frames EXCEPT ![f] =
                        [fr EXCEPT !.phase = 1,
                                   !.pc = IF fr.has_callback THEN "callback" ELSE "phase"]]
        /\ UNCHANGED << services, enhanced_search_coordinator,
                        global_recursion_depth, now, last_progress >>

\* The session state is written and the lock released; the pipeline starts.
WriteBegin(f) ==
    LET fr == frames[f]
    IN  /\ fr.pc = "begin_write"
        /\ execution_state' =
             Put(execution_state, fr.session_id, NewSessionState(fr.start_time))
        /\ sync_lock' = 0
        /\ frames' = [frames EXCEPT ![f] =
                        [fr EXCEPT !.phase = 1,
                                   !.pc = IF fr.has_callback THEN "callback" ELSE "phase"]]
        /\ UNCHANGED << services, enhanced_search_coordinator,
                        global_recursion_depth, now, last_progress >>

\* What a call of the caller's progress_callback does.
CallbackOutcomes == {"returns", "raises"}

\* progress_callback(k, message): it returns or it raises.
ProgressCallback(f) ==
    LET fr == frames[f]
    IN  /\ fr.pc = "callback"
        /\ ~Blocked(f)
        /\ \E outcome \in CallbackOutcomes :
             frames' = [frames EXCEPT ![f] =
                LET called == [fr EXCEPT !.callbacks = Append(@, fr.phase),
                                         !.last_invoked = 0, !.last_outcome = "",
                                !.succeeded = 0]
                IN  IF outcome = "raises"
                    THEN Caught(called, "callback")
                    ELSE [called EXCEPT
                            !.pc = IF fr.phase = ReportStep THEN "report" ELSE "phase"]]
        /\ UNCHANGED << services, enhanced_search_coordinator, execution_state,
                        global_recursion_depth, sync_lock, now, last_progress >>

\* The call of phase k's function: a phase with a candidate loop and a bound
\* provider enters its loop, any other phase returns its record.
RunPhase(f) ==
    LET fr == frames[f]
        k == fr.phase
    IN  /\ fr.pc = "phase"
        /\ \E b \in PhaseBehaviours(k) :
             frames' = [frames EXCEPT ![f] =
                IF HasLoop(k)
                THEN [fr EXCEPT !.pc = "resolve", !.cand = 1,
                                !.last_invoked = 0, !.last_outcome = "",
                                !.succeeded = 0]
                ELSE LET out == PhaseOutput(k, fr, b)
                         seen == [fr EXCEPT
                                    !.last_invoked = 0, !.succeeded = 0,
                                    !.last_outcome =
                                        IF PhaseService(k) \in services THEN b.kind ELSE "",
                                    !.collaborator_invoked =
                                        @ \/ b.kind \in {"raises", "empty", "result"}]
                     IN  IF IsRaised(out)
                         THEN Caught(seen, "phase")
                         ELSE AfterPhase(seen, k, out)]
        /\ UNCHANGED << services, enhanced_search_coordinator, execution_state,
                        global_recursion_depth, sync_lock, now, last_progress >>

\* One iteration of a candidate loop (of a phase, or of the final report).
TryCandidate(f) ==
    LET fr == frames[f]
        k == fr.phase
        i == fr.cand
    IN  /\ fr.pc = "resolve"
        /\ \E b \in CandidateBehaviours(k, i) :
             frames' = [frames EXCEPT ![f] =
                LET a == Attempt(k, i, b, fr)
                    seen == [fr EXCEPT
                               !.last_invoked = IF a.invoked THEN i ELSE @,
                               !.last_outcome = IF a.invoked THEN b.kind ELSE @,
                               !.succeeded = IF @ = 0 /\ a.invoked /\ Succeeded(k, i, b)
                                             THEN i ELSE @,
                               !.collaborator_invoked = @ \/ a.invoked]
                    out == IF a.done THEN a.out ELSE LoopFallback(k, fr)
                IN  IF ~a.done /\ i < Len(Methods(k))
                    THEN [seen EXCEPT !.cand = i + 1]
                    ELSE IF k = ReportStep
                    THEN AfterReport(seen, out)
                    ELSE AfterPhase(seen, k, out)]
        /\ UNCHANGED << services, enhanced_search_coordinator, execution_state,
                        global_recursion_depth, sync_lock, now, last_progress >>

\* complete_analysis_data is built and _generate_final_report is called.
GenerateReport(f) ==
    LET fr == frames[f]
        built == [fr EXCEPT
                    !.complete_analysis_data =
                        CompleteAnalysisData(fr.session_id, fr.data, fr.results),
                    !.last_invoked = 0, !.last_outcome = "", !.succeeded = 0]
    IN  /\ fr.pc = "report"
        /\ frames' = [frames EXCEPT ![f] =
             IF HasLoop(ReportStep)
             THEN [built EXCEPT !.pc = "resolve", !.cand = 1]
             ELSE AfterReport(built, LoopFallback(ReportStep, built))]
        /\ UNCHANGED << services, enhanced_search_coordinator, execution_state,
                        global_recursion_depth, sync_lock, now, last_progress >>

\* The final state had it been written without `with self.sync_lock:`.
AcquireComplete_NoLock(f) ==
    /\ frames[f].pc = "complete_lock"
    /\ frames' = [frames EXCEPT ![f] =
                    [@ EXCEPT !.pc = "complete_status", !.last_invoked = 0,
                              !.last_outcome = "", !.succeeded = 0]]
    /\ UNCHANGED << services, enhanced_search_coordinator, execution_state,
                    global_recursion_depth, sync_lock, now, last_progress >>

\* `with self.sync_lock:` before the final state is written.
AcquireComplete(f) ==
    /\ frames[f].pc = "complete_lock"
    /\ sync_lock = 0
    /\ sync_lock' = f
    /\ frames' = [frames EXCEPT ![f] =
                    [@ EXCEPT !.pc = "complete_status", !.last_invoked = 0,
                              !.last_outcome = "", !.succeeded = 0]]
    /\ UNCHANGED << services, enhanced_search_coordinator, execution_state,
                    global_recursion_depth, now, last_progress >>

\* self.execution_state[session_id]['status'] = 'completed'
WriteStatus(f) ==
    LET fr == frames[f]
    IN  /\ fr.pc = "complete_status"
        /\ execution_state' =
             [execution_state EXCEPT ![fr.session_id] = Put(@, "status", "completed")]
        /\ frames' = [frames EXCEPT ![f].pc = "complete_time"]
        /\ last_progress' =
             IF ~IsNone(last_progress) /\ last_progress.session_id = fr.session_id
             THEN [last_progress EXCEPT !.stayed_running = FALSE]
             ELSE last_progress
        /\ UNCHANGED << services, enhanced_search_coordinator,
                        global_recursion_depth, sync_lock, now >>

\* The final state had it stored a time measured again inside the lock.
WriteExecutionTime_MeasuredAgain(f) ==
    LET fr == frames[f]
    IN  /\ fr.pc = "complete_time"
        /\ execution_state' =
             [execution_state EXCEPT
                ![fr.session_id] = Put(@, "execution_time", now - fr.start_time)]
        /\ sync_lock' = 0
        /\ frames' = [frames EXCEPT ![f] =
             Returned(fr, SuccessResult(fr.session_id, fr.execution_time,
                                        fr.final_report))]
        /\ UNCHANGED << services, enhanced_search_coordinator,
                        global_recursion_depth, now, last_progress >>

\* self.execution_state[session_id]['execution_time'] = execution_time, the
\* lock is released and the success record returned.
WriteExecutionTime(f) ==
    LET fr == frames[f]
    IN  /\ fr.pc = "complete_time"
        /\ execution_state' =
             [execution_state EXCEPT
                ![fr.session_id] = Put(@, "execution_time", fr.execution_time)]
        /\ sync_lock' = 0
        /\ frames' = [frames EXCEPT ![f] =
             Returned(fr, SuccessResult(fr.session_id, fr.execution_time,
                                        fr.final_report))]
        /\ UNCHANGED << services, enhanced_search_coordinator,
                        global_recursion_depth, now, last_progress >>

\* salvar_erro of services.auto_save_manager, the error persistence sink: a
\* call records the error, or fails.
SalvarErroOutcomes == {"returns", "raises"}

\* `except Exception as e:` of execute_synchronized_analysis: salvar_erro is
\* called, the depth map is cleared and the failure record returned.  The
\* call of salvar_erro is not guarded: when it raises, the exception leaves
\* execute_synchronized_analysis.
ExceptHandler(f) ==
    LET fr == frames[f]
    IN  /\ fr.pc = "except"
        /\ \E outcome \in SalvarErroOutcomes :
             IF outcome = "raises"
             THEN /\ frames' = [frames EXCEPT ![f] = Ended(fr, "raised", Pending)]
                  /\ UNCHANGED global_recursion_depth
             ELSE /\ global_recursion_depth' = EmptyDict
                  /\ frames' = [frames EXCEPT ![f] =
                        Returned(fr, FailureResult(fr.session_id, fr.error))]
        /\ UNCHANGED << services, enhanced_search_coordinator, execution_state,
                        sync_lock, now, last_progress >>

\* get_session_progress had it no min(..., 95).
SessionProgress_Uncapped(session_id) ==
    IF session_id \notin DOMAIN execution_state
    THEN None
    ELSE LET session_state == execution_state[session_id]
         IN  IF session_state.status = "running"
             THEN LET elapsed == now - session_state.start_time
                      progress == (elapsed * 100) \div ProgressEstimateSeconds
                  IN  [completed |-> FALSE, percentage |-> progress,
                       current_step |-> << "Processando", progress >>]
             ELSE IF session_state.status = "completed"
             THEN [completed |-> TRUE, percentage |-> CompletedPercentage]
             ELSE None

\* get_session_progress had it no branch for a running session.
SessionProgress_CompletedOnly(session_id) ==
    IF session_id \notin DOMAIN execution_state
    THEN None
    ELSE IF execution_state[session_id].status = "completed"
    THEN [completed |-> TRUE, percentage |-> CompletedPercentage]
    ELSE None

\* get_session_progress(session_id), as a function of the state it reads.
SessionProgress(session_id) ==
    IF session_id \notin DOMAIN execution_state
       \/ ~Truthy(execution_state[session_id])
    THEN None
    ELSE LET session_state == execution_state[session_id]
         IN  IF session_state.status = "running"
             THEN LET elapsed == now - session_state.start_time
                      progress == Min((elapsed * 100) \div ProgressEstimateSeconds,
                                      ProgressCap)
                  IN  [completed |-> FALSE, percentage |-> progress,
                       current_step |-> << "Processando", progress >>]
             ELSE IF session_state.status = "completed"
             THEN [completed |-> TRUE, percentage |-> CompletedPercentage]
             ELSE None

\* A call of get_session_progress: the whole body runs under the lock.
QueryIds == Sessions \cup {"never_started"}

GetSessionProgress(session_id) ==
    /\ sync_lock = 0
    /\ last_progress' =
         LET status == IF session_id \in DOMAIN execution_state
                        THEN execution_state[session_id].status
                        ELSE "absent"
         IN  [session_id |-> session_id,
              status |-> status,
              progress |-> SessionProgress(session_id),
              stayed_running |-> status = "running"]
    /\ UNCHANGED << services, enhanced_search_coordinator, execution_state,
                    global_recursion_depth, sync_lock, now, frames >>

\* Time passes.
Tick ==
    /\ now < MaxTicks * TickSeconds
    /\ now' = now + TickSeconds
    /\ UNCHANGED << services, enhanced_search_coordinator, execution_state,
                    global_recursion_depth, sync_lock, frames, last_progress >>

\* ------------------------------------------------------- specifications
\* The statements of one call that runs to its return.
Run(f) ==
    \/ ResetRecursion(f)
    \/ AcquireBegin(f)
    \/ WriteBegin(f)
    \/ RunPhase(f)
    \/ GenerateReport(f)
    \/ AcquireComplete(f)
    \/ WriteStatus(f)
    \/ WriteExecutionTime(f)

\* A caller makes one call after the other, with or without a callback; the
\* frame of the call that ended is taken again.
CallSequential ==
    \E data \in RequestParams, session_id \in Sessions, has_callback \in BOOLEAN :
        /\ \A g \in Frames : ~Active(g)
        /\ frames' = [frames EXCEPT ![1] = Entered(data, session_id, has_callback, 0)]
        /\ UNCHANGED << services, enhanced_search_coordinator, execution_state,
                        global_recursion_depth, sync_lock, now, last_progress >>

\* Callers on several threads, passing no callback.
CallConcurrent ==
    \E f \in 1..ConcurrentCalls, data \in {EmptyData, FitnessApp},
       session_id \in Sessions :
        Enter(f, data, session_id, FALSE, 0)

\* A caller whose progress callback, when invoked with index 1, calls the
\* orchestrator again for the same session, with the same callback; the
\* call that invoked the callback waits.
CallReentrant ==
    \E session_id \in Sessions :
        /\ \A g \in Frames : ~Active(g)
        /\ Enter(1, FitnessApp, session_id, TRUE, 0)

Reenter ==
    \E f \in 1..MaxNesting, parent \in Frames :
        /\ frames[parent].pc = "callback"
        /\ frames[parent].phase = 1
        /\ ~Blocked(parent)
        /\ Enter(f, FitnessApp, frames[parent].session_id, TRUE, parent)

\* The pipeline: one call at a time against any registry.
Next ==
    \/ CallSequential
    \/ \E f \in Frames : Run(f)
    \/ \E f \in Frames : ProgressCallback(f)
    \/ \E f \in Frames : TryCandidate(f)
    \/ \E f \in Frames : ExceptHandler(f)

Spec == Init /\ [][Next]_vars

\* The sessions: concurrent calls, progress queries and the clock, with no
\* collaborator bound.
NextSessions ==
    \/ CallConcurrent
    \/ \E f \in Frames : Run(f)
    \/ \E session_id \in QueryIds : GetSessionProgress(session_id)
    \/ Tick

SpecSessions == InitDegraded /\ [][NextSessions]_vars

\* Re-entry: nested calls of execute_synchronized_analysis, with no
\* collaborator bound.
NextReentry ==
    \/ CallReentrant
    \/ Reenter
    \/ \E f \in Frames : Run(f)
    \/ \E f \in Frames : ProgressCallback(f)
    \/ \E f \in Frames : ExceptHandler(f)

SpecReentry == InitDegraded /\ [][NextReentry]_vars

\* SuperOrchestrator.__init__ when only the pre-pitch architect was imported.
InitPrePitch ==
    /\ services = {"pre_pitch"}
    /\ enhanced_search_coordinator = FALSE
    /\ InitState

\* Callers on several threads, each with a session id of its own and a
\* progress callback.
CallThreads ==
    \E f \in 1..ConcurrentCalls :
        Enter(f, FitnessApp, IF f = 1 THEN "s1" ELSE "s2", TRUE, 0)

\* Blocking: concurrent calls and progress queries while the phases, the
\* progress callback, the collaborators and salvar_erro take any time, or
\* never return. Only the statements that wait for sync_lock or run inside
\* `with self.sync_lock:` are sure to be executed.
NextBlocking ==
    \/ CallThreads
    \/ \E f \in Frames : Run(f)
    \/ \E f \in Frames : ProgressCallback(f)
    \/ \E f \in Frames : ExceptHandler(f)
    \/ \E session_id \in QueryIds : GetSessionProgress(session_id)

LockFairness ==
    \A f \in Frames :
        /\ WF_vars(AcquireBegin(f))
        /\ WF_vars(WriteBegin(f))
        /\ WF_vars(AcquireComplete(f))
        /\ WF_vars(WriteStatus(f))
        /\ WF_vars(WriteExecutionTime(f))

SpecBlocking == InitPrePitch /\ [][NextBlocking]_vars /\ LockFairness

\* Callers on several threads, with empty or non-empty params, each passing
\* a progress callback.
CallWithCallback ==
    \E f \in 1..ConcurrentCalls, data \in {EmptyData, FitnessApp},
       session_id \in Sessions :
        Enter(f, data, session_id, TRUE, 0)

\* The returns: concurrent calls whose callbacks may raise, and the clock,
\* with no collaborator bound.
NextReturns ==
    \/ CallWithCallback
    \/ \E f \in Frames : Run(f)
    \/ \E f \in Frames : ProgressCallback(f)
    \/ \E f \in Frames : ExceptHandler(f)
    \/ Tick

SpecReturns == InitDegraded /\ [][NextReturns]_vars

\* ---------------------------------------------------------- properties
\* The positions of a call between the creation of its session state and the
\* end of the last phase, and after the last phase.
InPhases(fr) == fr.pc \in {"callback", "phase", "resolve"} /\ fr.phase \in Phases
PastPhases(fr) ==
    \/ fr.pc \in {"report", "complete_lock", "complete_status", "complete_time"}
    \/ fr.pc \in {"callback", "resolve"} /\ fr.phase = ReportStep
IsRecord(o) == ~IsPending(o) /\ ~IsRaised(o)

\* C1 (failure isolation): whatever the collaborator of a phase does (absent,
\* operation missing, raising, returning an empty result), the phase returns
\* an output record, no call is sent to the except clause by a phase, every
\* phase before the current one has left its record, and the consolidation
\* runs on the records of all twelve phases.
C1_FailureIsolation ==
    \A f \in Frames :
        LET fr == frames[f]
        IN  /\ fr.aborted_by # "phase"
            /\ InPhases(fr) => \A k \in 1..(fr.phase - 1) : IsRecord(fr.results[k])
            /\ PastPhases(fr) => \A k \in Phases : IsRecord(fr.results[k])
            /\ fr.pc \in {"complete_lock", "complete_status", "complete_time"}
                  => IsRecord(fr.final_report)

\* A run in which social analysis ended in an error record and web search in
\* its fallback has reached the writing of its final state.
C1_Witness ==
    \E f \in Frames :
        /\ frames[f].pc = "complete_status"
        /\ frames[f].results[2].status = "error"
        /\ frames[f].results[1].status = "fallback"
        /\ IsRecord(frames[f].results[TotalComponents])

\* C2: a call of execute_synchronized_analysis never ends by raising to its
\* caller, and the record it returns has a boolean success and the session id.
C2_AlwaysReturnsRecord ==
    \A f \in Frames :
        /\ frames[f].pc # "raised"
        /\ frames[f].pc = "returned" =>
              /\ frames[f].ret.success \in BOOLEAN
              /\ frames[f].ret.session_id = frames[f].session_id

\* C3: a call with empty request params returns success False with an error,
\* has run no phase, invoked no collaborator and called no callback; the call
\* leaves execution_state as it was, and a session id that had no state has
\* no progress after it.
C3_FailedFast ==
    \A f \in Frames :
        LET fr == frames[f]
        IN  (fr.pc # "idle" /\ fr.data = EmptyData) =>
                /\ fr.pc = "returned"
                /\ fr.ret.success = FALSE
                /\ fr.ret.error # ""
                /\ fr.phase = 0
                /\ \A k \in Phases : IsPending(fr.results[k])
                /\ ~fr.collaborator_invoked
                /\ fr.callbacks = << >>

C3_NoStateWritten ==
    \A f \in Frames :
        (~Active(f) /\ frames'[f] # frames[f] /\ frames'[f].data = EmptyData)
            => /\ execution_state' = execution_state
               /\ frames'[f].pc = "returned"
               /\ \A sid \in Sessions :
                     (frames'[f].session_id = sid /\ sid \notin DOMAIN execution_state)
                        => IsNone(SessionProgress(sid)')

C3_EmptyParamsFailFast == [](C3_FailedFast) /\ [][C3_NoStateWritten]_vars

\* A call with empty params and a callback has returned its failure record,
\* for a session id without a state, to a caller whose registry holds
\* collaborators and that has completed a run of another session before.
C3_Witness ==
    \E f \in Frames :
        /\ frames[f].pc = "returned"
        /\ frames[f].data = EmptyData
        /\ frames[f].has_callback
        /\ frames[f].ret.success = FALSE
        /\ services # {}
        /\ frames[f].session_id \notin DOMAIN execution_state
        /\ \E sid \in DOMAIN execution_state : execution_state[sid].status = "completed"

\* C4: the begin of a run whose session id has a state in status running
\* fails with DuplicateSessionError and leaves execution_state as it was.
C4_DuplicateBeginFails ==
    [][\A f \in Frames :
          LET sid == frames[f].session_id
          IN  (/\ frames[f].pc = "begin_write"
               /\ frames'[f].pc # "begin_write"
               /\ sid \in DOMAIN execution_state
               /\ execution_state[sid].status = "running")
              => /\ execution_state' = execution_state
                 /\ frames'[f].pc = "returned"
                 /\ frames'[f].ret.success = FALSE
                 /\ frames'[f].ret.error = "DuplicateSessionError"]_vars

\* C5: a phase bound to a collaborator that is absent from the registry
\* returns status unavailable, and the same record whatever else varies.
BoundPhases == {2, 4, 5, 6, 7, 8}

C5_AbsentIsUnavailable ==
    \A f \in Frames : \A k \in BoundPhases :
        (PhaseService(k) \notin services /\ IsRecord(frames[f].results[k])) =>
            /\ frames[f].results[k].status = "unavailable"
            /\ \A b \in Behaviours(PhaseResults(k)) :
                  PhaseOutput(k, frames[f], b) = frames[f].results[k]

\* C6: a candidate loop invokes its candidates in their declared order, and
\* invokes none after one that succeeded: while the loop runs no candidate
\* has succeeded and the last one invoked precedes the current one; a step
\* invokes a candidate only past the last one invoked; once the loop has
\* ended the successful candidate is the last one invoked.
C6_LoopOrder ==
    \A f \in Frames :
        LET fr == frames[f]
        IN  /\ fr.pc = "resolve" => fr.last_invoked < fr.cand /\ fr.succeeded = 0
            /\ fr.succeeded # 0 => fr.last_invoked = fr.succeeded

C6_NextInvoked ==
    \A f \in Frames :
        (frames'[f].last_invoked # frames[f].last_invoked /\ frames'[f].last_invoked # 0)
            => /\ frames[f].pc = "resolve"
               /\ frames[f].succeeded = 0
               /\ frames'[f].last_invoked = frames[f].cand
               /\ frames'[f].last_invoked > frames[f].last_invoked

C7_FourthEnterDenied ==
    \A f \in Frames :
        (frames[f].pc # "idle" /\ Depth(f) > max_recursion_depth) =>
            /\ frames[f].phase = 0
            /\ frames[f].pc \in {"reset", "begin_lock", "begin_write", "returned"}
            /\ frames[f].pc = "returned" => frames[f].ret.success = FALSE

\* C8: of two successive queries of a session that stayed in status running
\* the second reports no smaller a percentage, and a percentage reported for
\* a running session is at most 95.
C8_ProgressMonotone ==
    [][(~IsNone(last_progress') /\ last_progress'.status = "running") =>
          /\ last_progress'.progress.percentage <= 95
          /\ (/\ ~IsNone(last_progress)
              /\ last_progress.session_id = last_progress'.session_id
              /\ last_progress.stayed_running)
                => last_progress'.progress.percentage
                      >= last_progress.progress.percentage]_vars

\* C9: a query reports completed True with percentage 100 exactly when the
\* status it read is completed; for status running it reports completed
\* False with a percentage below 100.
C9_CompletedIffHundred ==
    ~IsNone(last_progress) =>
        LET p == last_progress.progress
        IN  /\ last_progress.status = "completed"
                  => (~IsNone(p) /\ p.completed /\ p.percentage = 100)
            /\ (~IsNone(p) /\ (p.completed \/ p.percentage = 100))
                  => last_progress.status = "completed"
            /\ last_progress.status = "running"
                  => (~IsNone(p) /\ ~p.completed /\ p.percentage < 100)

\* A running session was queried once the whole estimate had elapsed.
C9_Witness ==
    /\ ~IsNone(last_progress)
    /\ last_progress.status = "running"
    /\ now - execution_state[last_progress.session_id].start_time
          >= ProgressEstimateSeconds
    /\ last_progress.stayed_running
    /\ last_progress.progress.percentage = 95

\* C10: a query for a session id no call was ever made with returns None,
\* and a query for a session id that has a state returns a record.
C10_NoneIffUnknown ==
    ~IsNone(last_progress) =>
        /\ (\A f \in Frames : frames[f].session_id # last_progress.session_id)
              => IsNone(last_progress.progress)
        /\ last_progress.status # "absent" => ~IsNone(last_progress.progress)
        /\ last_progress.status = "absent" => IsNone(last_progress.progress)

\* While a session is running and another has completed, a query for an id
\* that was never used returned None.
C10_Witness ==
    /\ ~IsNone(last_progress)
    /\ last_progress.session_id = "never_started"
    /\ IsNone(last_progress.progress)
    /\ \E a, b \in DOMAIN execution_state :
          /\ execution_state[a].status = "running"
          /\ execution_state[b].status = "completed"

\* No collaborator is bound and no search coordinator was imported.
AllAbsent == services = {} /\ ~enhanced_search_coordinator

\* C11 (fully degraded run): with every collaborator absent and segmento and
\* produto given, each of the twelve phase outputs has status unavailable or
\* fallback, and the call returns success True with a summary that counts 0
\* phases with real data.
C11_FullyDegradedRun ==
    \A f \in Frames :
        LET fr == frames[f]
        IN  (AllAbsent /\ fr.data = FitnessApp) =>
                /\ \A k \in Phases :
                      IsRecord(fr.results[k])
                         => fr.results[k].status \in {"unavailable", "fallback"}
                /\ (fr.pc = "returned" /\ fr.aborted_by = "") =>
                      /\ fr.ret.success = TRUE
                      /\ fr.ret.data_validation.components_with_real_data = 0

\* C12 (web research feeds the avatar): the avatar's fonte_dados.web_sources
\* is the number of processed_results of the web research output of the
\* same run.
C12_AvatarCountsWebSources ==
    \A f \in Frames :
        IsRecord(frames[f].results[3]) =>
            frames[f].results[3].fonte_dados.web_sources
                = Len(Get(frames[f].results[1], "processed_results", << >>))

\* The scenario: the search coordinator alone is there and returned 5
\* results, and the avatar of that run counts 5 web sources.
C12_Witness ==
    \E f \in Frames :
        /\ services = {}
        /\ enhanced_search_coordinator
        /\ IsRecord(frames[f].results[3])
        /\ frames[f].results[1].source = "enhanced_search"
        /\ Len(frames[f].results[1].processed_results) = 5
        /\ frames[f].results[3].fonte_dados.web_sources = 5

\* C13: a progress callback that raises does not affect the run: a call with
\* valid params is never sent to its except clause by the callback, and it
\* ends by returning success True.
C13_CallbackFailureIgnored ==
    \A f \in Frames :
        ValidParams(frames[f].data) =>
            /\ frames[f].aborted_by # "callback"
            /\ frames[f].pc \in {"except", "returned", "raised"}
                  => (frames[f].pc = "returned" /\ frames[f].ret.success = TRUE)

\* C14: a supplied callback is called once before each step, with the
\* indices 1, 2, 3, ... in order: when the call of index k is due, the
\* indices 1..k-1 have been passed, step k-1 has left its output and step k
\* has neither an output nor a candidate in progress; while step k runs the
\* indices passed are 1..k; every call of the callback passes the index of
\* the step about to start.  Without a callback nothing is called.
C14_IndicesPassed ==
    \A f \in Frames :
        LET fr == frames[f]
        IN  /\ ~fr.has_callback => fr.callbacks = << >>
            /\ (fr.has_callback /\ fr.pc = "callback") =>
                  /\ fr.callbacks = List(fr.phase - 1)
                  /\ fr.cand = 0
                  /\ fr.phase \in Phases => IsPending(fr.results[fr.phase])
                  /\ fr.phase > 1 => IsRecord(fr.results[fr.phase - 1])
            /\ (fr.has_callback /\ fr.pc \in {"phase", "resolve", "report"}) =>
                  fr.callbacks = List(fr.phase)
            /\ (fr.has_callback
                  /\ fr.pc \in {"complete_lock", "complete_status", "complete_time"}) =>
                  fr.callbacks = List(ReportStep)

C14_CallbackCall ==
    \A f \in Frames :
        (frames'[f].callbacks # frames[f].callbacks /\ frames'[f].callbacks # << >>)
            => /\ frames[f].pc = "callback"
               /\ frames'[f].callbacks = Append(frames[f].callbacks, frames[f].phase)
               /\ Len(frames'[f].callbacks) = frames[f].phase
               /\ frames[f].phase \in Phases => IsPending(frames[f].results[frames[f].phase])

C14_CallbackBeforeEachPhase == [](C14_IndicesPassed) /\ [][C14_CallbackCall]_vars

\* A run with a callback has passed the indices 1..13 and is writing its
\* final state.
C14_Witness ==
    \E f \in Frames :
        /\ frames[f].has_callback
        /\ frames[f].pc = "complete_status"
        /\ frames[f].callbacks = <<1, 2, 3, 4, 5, 6, 7, 8, 9, 10, 11, 12, 13>>

\* C15: the phases run one after the other in their fixed order: while phase
\* k is current exactly the phases before it have an output; an output
\* appears only for the current phase, which then becomes the next one; the
\* report is produced only once all twelve outputs are there.
C15_OutputsArePrefix ==
    \A f \in Frames :
        LET fr == frames[f]
        IN  /\ InPhases(fr) => \A k \in Phases : IsRecord(fr.results[k]) <=> k < fr.phase
            /\ IsRecord(fr.final_report) => \A k \in Phases : IsRecord(fr.results[k])

C15_NextOutput ==
    \A f \in Frames :
        /\ \A k \in Phases :
              (IsPending(frames[f].results[k]) /\ IsRecord(frames'[f].results[k])) =>
                  /\ frames[f].phase = k
                  /\ frames'[f].phase = k + 1
                  /\ \A j \in 1..(k - 1) : IsRecord(frames[f].results[j])
        /\ (IsPending(frames[f].final_report) /\ IsRecord(frames'[f].final_report)) =>
              /\ frames[f].phase = ReportStep
              /\ \A k \in Phases : IsRecord(frames[f].results[k])

C15_StrictlySequential == [](C15_OutputsArePrefix) /\ [][C15_NextOutput]_vars

\* The report's candidate loop is running on the outputs of all 12 phases,
\* the sales funnel built on a drivers output a collaborator returned.
C15_Witness ==
    \E f \in Frames :
        /\ frames[f].pc = "resolve"
        /\ frames[f].phase = ReportStep
        /\ \A k \in Phases : IsRecord(frames[f].results[k])
        /\ frames[f].results[TotalComponents].dados_base.drivers_applied > 0

\* The session state of f's session id has been created by f, which is
\* still running.
Running(f) == Active(f) /\ frames[f].phase >= 1
\* No other call was made with the session id of f.
OnlyCallOf(f) ==
    \A g \in Frames :
        (g # f /\ frames[g].pc # "idle" /\ ValidParams(frames[g].data))
            => frames[g].session_id # frames[f].session_id

\* C16: whenever the lock is free (the states a get_session_progress call
\* reads), a session is in status completed exactly when its execution_time
\* is set; the return of success True leaves the lock free and a state for
\* which a query reports completed True, 100; and so does every later query
\* of a session id no other call used.
C16_CompletedHasTime ==
    sync_lock = 0 =>
        /\ \A sid \in DOMAIN execution_state :
              execution_state[sid].status = "completed"
                 <=> "execution_time" \in DOMAIN execution_state[sid]
        /\ \A f \in Frames :
              (frames[f].pc = "returned" /\ frames[f].ret.success /\ OnlyCallOf(f))
                 => SessionProgress(frames[f].session_id)
                       = [completed |-> TRUE, percentage |-> 100]

C16_ReturnIsVisible ==
    \A f \in Frames : \A sid \in Sessions :
        (frames[f].pc = "complete_time" /\ frames'[f].pc = "returned"
            /\ frames[f].session_id = sid)
            => /\ sync_lock' = 0
               /\ frames'[f].ret.success = TRUE
               /\ SessionProgress(sid)' = [completed |-> TRUE, percentage |-> 100]

C17_FailedRunLeavesRunning ==
    \A f \in Frames :
        (/\ frames[f].pc = "returned"
         /\ ValidParams(frames[f].data)
         /\ frames[f].ret.success = FALSE)
            => /\ frames[f].session_id \in DOMAIN execution_state
               /\ execution_state[frames[f].session_id].status = "failed"

\* C18: while a call that created the state of session s is still running,
\* no other call made with s writes execution_state, and no query of s can
\* read status completed.
C18_StateNotCompleted ==
    \A f \in Frames :
        (Running(f) /\ sync_lock = 0)
            => execution_state[frames[f].session_id].status # "completed"

C18_NoOtherWriter ==
    \A f, g \in Frames :
        (/\ f # g
         /\ Running(f)
         /\ frames[g].session_id = frames[f].session_id
         /\ frames'[g] # frames[g])
            => execution_state' = execution_state

C18_NoInterleavedUpdates == [](C18_StateNotCompleted) /\ [][C18_NoOtherWriter]_vars

\* C19: the call that clears the recursion depth map at its start holds
\* sync_lock while it does.
C19_ClearedUnderLock ==
    [][\A f \in Frames :
          (frames[f].pc = "reset" /\ frames'[f].pc # "reset") => sync_lock = f]_vars

StatusValues == {"success", "fallback", "unavailable", "error"}

\* C21: every phase output kept for the consolidated record carries a status
\* among success, fallback, unavailable and error; a result a collaborator
\* returned is in it under status success.
C21_OutputsCarryStatus ==
    \A f \in Frames : \A k \in Phases :
        IsRecord(frames[f].results[k]) =>
            /\ "status" \in DOMAIN frames[f].results[k]
            /\ frames[f].results[k].status \in StatusValues
            /\ (/\ frames[f].phase = k + 1
                /\ frames[f].pc \in {"callback", "phase", "report"}
                /\ \/ frames[f].succeeded # 0
                   \/ k \in {2, 4, 7, 8} /\ frames[f].last_outcome = "result")
                  => frames[f].results[k].status = "success"

\* C22: a candidate of a loop that raises is caught and the loop goes on:
\* the call is not sent to its except clause, a candidate that is not the
\* last of the list is followed by the next one of the same loop, and after
\* the last one the loop ends with a record for its phase (or its report).
C22_RaiseGoesOn ==
    \A f \in Frames :
        LET fr == frames[f]
            k == fr.phase
        IN  (/\ fr.pc = "resolve"
             /\ frames'[f].last_invoked = fr.cand
             /\ frames'[f].last_invoked # fr.last_invoked
             /\ frames'[f].last_outcome = "raises")
                => /\ frames'[f].pc \notin {"except", "raised", "returned"}
                   /\ frames'[f].aborted_by = ""
                   /\ IF fr.cand < Len(Methods(k))
                      THEN /\ frames'[f].pc = "resolve"
                           /\ frames'[f].phase = k
                           /\ frames'[f].cand = fr.cand + 1
                      ELSE /\ frames'[f].pc # "resolve"
                           /\ IF k = ReportStep
                              THEN IsRecord(frames'[f].final_report)
                              ELSE IsRecord(frames'[f].results[k])

C22_FailingCandidateSkipped == [][C22_RaiseGoesOn]_vars

\* A loop stands at a candidate past the second, the candidate before it
\* having raised.
C22_Witness ==
    \E f \in Frames :
        /\ frames[f].pc = "resolve"
        /\ frames[f].last_outcome = "raises"
        /\ frames[f].last_invoked >= 2
        /\ frames[f].cand = frames[f].last_invoked + 1

\* C23: in the visual-proofs, anti-objection and report loops a candidate
\* that returns an empty result does not end the search: if it is not the
\* last of the list, the next candidate of the same loop is tried.
C23_EmptyGoesOn ==
    \A f \in Frames :
        LET fr == frames[f]
            k == fr.phase
        IN  (/\ fr.pc = "resolve"
             /\ k \in {5, 6, ReportStep}
             /\ frames'[f].last_invoked = fr.cand
             /\ frames'[f].last_invoked # fr.last_invoked
             /\ frames'[f].last_outcome = "empty"
             /\ fr.cand < Len(Methods(k)))
                => /\ frames'[f].pc = "resolve"
                   /\ frames'[f].phase = k
                   /\ frames'[f].cand = fr.cand + 1

C23_EmptyResultSkipped == [][C23_EmptyGoesOn]_vars

\* C24: a collaborator-bound phase whose collaborator is present and whose
\* every candidate method was missing, raised or returned an empty result
\* leaves an output of status fallback.
C24_AllFailed ==
    \A f \in Frames : \A k \in BoundPhases :
        (/\ frames[f].phase = k
         /\ IsPending(frames[f].results[k])
         /\ IsRecord(frames'[f].results[k])
         /\ PhaseService(k) \in services
         /\ frames'[f].last_outcome \in {"", "missing", "raises", "empty"})
            => frames'[f].results[k].status = "fallback"

C24_AllFailedIsFallback == [][C24_AllFailed]_vars

\* C25: when the first search provider (websailor) returns a non-empty
\* result, web research ends there with that result as its output, the
\* second provider not being consulted; and the output of web research has
\* status fallback only when no provider that was called returned a result.
C25_FirstProvider ==
    \A f \in Frames :
        LET fr == frames[f]
        IN  /\ (/\ fr.pc = "resolve" /\ fr.phase = 1 /\ fr.cand = 1
                /\ frames'[f].last_invoked = 1
                /\ frames'[f].last_outcome = "result")
                   => /\ frames'[f].pc # "resolve"
                      /\ frames'[f].results[1] \in WebSailorResults
            /\ (/\ fr.phase = 1
                /\ IsPending(fr.results[1])
                /\ IsRecord(frames'[f].results[1])
                /\ frames'[f].results[1].status = "fallback")
                   => frames'[f].last_outcome # "result"

C25_AnyNonEmptyAccepted == [][C25_FirstProvider]_vars

\* The twelve phase outputs of a run on the params data with every
\* collaborator absent.
DegradedResults(data) ==
    LET r1 == WebSearchFallback
        r2 == SocialAnalysis(data, FALSE, Missing)
        r3 == AvatarAnalysis(r1, r2, data)
        r4 == MentalDrivers(r3, FALSE, Missing)
    IN  << r1, r2, r3, r4,
           [status |-> "fallback", proofs |-> << >>],
           [status |-> "fallback", sistema_anti_objecao |-> EmptyDict],
           PrePitch(FALSE, Missing),
           FuturePredictions(FALSE, Missing),
           CompetitionAnalysis(r1, data),
           InsightsExtraction(r1, r2),
           KeywordsAnalysis(r1, r3),
           SalesFunnel(r4, r3) >>

\* The phases of fr that got a record of status success from a collaborator.
RealPhases(fr) ==
    {k \in {1} \cup BoundPhases : Get(fr.results[k], "status", "") = "success"}

\* C26: when the report collaborator is absent or none of its candidates
\* returned a result, the final report is the basic summary of this run; and
\* the basic summary tells the phases with real data from those with
\* fallback data: the summary of a run in which a collaborator gave some
\* phase a record of status success differs from the summary of the fully
\* degraded run on the same params.
C26_BasicSummary ==
    \A f \in Frames :
        LET fr == frames[f]
            cad == fr.complete_analysis_data
            degraded == CompleteAnalysisData(fr.session_id, fr.data,
                                             DegradedResults(fr.data))
        IN  /\ (fr.pc = "complete_lock" /\ fr.last_outcome # "result")
                  => /\ fr.final_report.status = "basic"
                     /\ fr.final_report.session_id = fr.session_id
                     /\ fr.final_report.componentes_analisados = DOMAIN cad
            /\ (/\ fr.pc \in {"complete_lock", "complete_status", "complete_time"}
                /\ fr.final_report.status = "basic"
                /\ RealPhases(fr) # {})
                  => fr.final_report.dados_coletados #
                        BasicReport(degraded, fr.session_id, now).dados_coletados

\* C27: the data_validation summary of a successful return agrees with the
\* status fields of the twelve phase outputs of that run: it counts as real
\* the phases of status success, says that no fallback was used exactly
\* when no phase has status fallback, unavailable or error, and says that
\* all data is real exactly when every phase has status success.
C27_SummaryOfRun ==
    \A f \in Frames :
        (frames[f].pc = "complete_time" /\ frames'[f].pc = "returned") =>
            LET status == [k \in Phases |-> Get(frames[f].results[k], "status", "")]
                summary == frames'[f].ret.data_validation
            IN  /\ summary.components_with_real_data =
                      Cardinality({k \in Phases : status[k] = "success"})
                /\ summary.zero_fallbacks_used =
                      (\A k \in Phases :
                          status[k] \notin {"fallback", "unavailable", "error"})
                /\ summary.all_data_real = (\A k \in Phases : status[k] = "success")

C27_ValidationAgreesWithPhases == [][C27_SummaryOfRun]_vars

\* C28: the consolidated record a call hands to the report generation holds
\* the session id and the params of that call and, under the key of each of
\* the twelve phases, the output that phase left in the same call: fourteen
\* keys, none of the outputs missing or under the key of another phase.
C28_ConsolidatedRecord ==
    \A f \in Frames :
        LET fr == frames[f]
            cad == fr.complete_analysis_data
        IN  (fr.pc \in {"resolve", "complete_lock"} /\ fr.phase = ReportStep) =>
               /\ IsRecord(cad)
               /\ DOMAIN cad = {"session_id", "projeto_dados"}
                                  \cup {PhaseKeys[k] : k \in Phases}
               /\ Cardinality(DOMAIN cad) = TotalComponents + 2
               /\ cad.session_id = fr.session_id
               /\ cad.projeto_dados = fr.data
               /\ \A k \in Phases :
                     /\ IsRecord(fr.results[k])
                     /\ cad[PhaseKeys[k]] = fr.results[k]

\* The report generation of a second call has its record, two phases of
\* that call holding what their collaborators returned, while the state of
\* the session of an earlier call is still there.
C28_Witness ==
    \E f \in Frames :
        /\ frames[f].pc \in {"resolve", "complete_lock"}
        /\ frames[f].phase = ReportStep
        /\ IsRecord(frames[f].complete_analysis_data)
        /\ Cardinality(RealPhases(frames[f])) >= 2
        /\ \E sid \in DOMAIN execution_state :
              sid # frames[f].session_id /\ execution_state[sid].status = "completed"

\* C29: a call stands at a statement that writes the session state (its
\* creation, the completion update) only while it holds sync_lock; a step
\* that changes execution_state is taken by the call holding the lock and
\* changes the state of that call's session id alone; and a progress query
\* reads while no call holds the lock.
C29_WritersHoldLock ==
    \A f \in Frames :
        frames[f].pc \in {"begin_write", "complete_status", "complete_time"}
            <=> sync_lock = f

C29_WriteUnderLock ==
    execution_state' # execution_state =>
        \E f \in Frames :
            /\ sync_lock = f
            /\ frames'[f] # frames[f]
            /\ frames[f].session_id \in DOMAIN execution_state'
            /\ \A sid \in DOMAIN execution_state' \cup DOMAIN execution_state :
                  sid # frames[f].session_id =>
                     /\ sid \in DOMAIN execution_state
                     /\ sid \in DOMAIN execution_state'
                     /\ execution_state'[sid] = execution_state[sid]

C29_ReadUnderLock ==
    (last_progress' # last_progress /\ frames' = frames) =>
        /\ sync_lock = 0
        /\ execution_state' = execution_state

C29_StateAccessLocked ==
    [](C29_WritersHoldLock) /\ [][C29_WriteUnderLock /\ C29_ReadUnderLock]_vars

\* One call holds the lock for its completion update while another call
\* waits for the lock, a progress query having been answered before.
C29_Witness ==
    \E f, g \in Frames :
        /\ sync_lock = f
        /\ frames[f].pc = "complete_time"
        /\ frames[g].pc \in {"begin_lock", "complete_lock"}
        /\ ~IsNone(last_progress)

\* C30: a session id that has a session state has one after every step of
\* the process, whatever calls of execute_synchronized_analysis and of
\* get_session_progress are made: the set of known session ids only grows.
C30_KnownSessionsGrow ==
    \A sid \in Sessions :
        sid \in DOMAIN execution_state => sid \in DOMAIN execution_state'

C30_NeverEvicted == [][C30_KnownSessionsGrow]_vars

\* Both sessions are known, one of them completed and queried since, while
\* a later call is running.
C30_Witness ==
    /\ DOMAIN execution_state = Sessions
    /\ ~IsNone(last_progress)
    /\ last_progress.status = "completed"
    /\ \E f \in Frames :
          /\ Running(f)
          /\ frames[f].session_id # last_progress.session_id

\* C31: sync_lock is not held while a collaborator method or the progress
\* callback is invoked: no call holds it at a statement that invokes one,
\* and no step that invokes one is taken by the holder. So, however long a
\* phase, a callback or a collaborator takes (no step of theirs is sure to
\* be taken), the lock is always released again, which is when a progress
\* query can take it, and a call waiting to create its session state gets
\* the lock and creates it.
C31_NotHeldAtInvocation ==
    \A f \in Frames :
        frames[f].pc \in {"callback", "phase", "resolve", "report", "except"}
            => sync_lock # f

C31_InvokedWithoutLock ==
    \A f \in Frames :
        (\/ Len(frames'[f].callbacks) > Len(frames[f].callbacks)
         \/ frames'[f].collaborator_invoked /\ ~frames[f].collaborator_invoked)
            => sync_lock # f /\ sync_lock' # f

C31_BlockedPhaseHarmless ==
    /\ [](C31_NotHeldAtInvocation)
    /\ [][C31_InvokedWithoutLock]_vars
    /\ (sync_lock # 0) ~> (sync_lock = 0)
    /\ \A g \in Frames :
          (frames[g].pc = "begin_lock") ~> (frames[g].phase >= 1)

\* One call stands at the invocation of the pre-pitch collaborator, its
\* callback having been invoked seven times, while a call for the other
\* session that found the lock free has run to its successful return and a
\* progress query has been answered.
C31_Witness ==
    \E f, g \in Frames :
        /\ frames[f].pc = "phase"
        /\ frames[f].phase = 7
        /\ Len(frames[f].callbacks) = 7
        /\ frames[g].pc = "returned"
        /\ frames[g].ret.success
        /\ frames[g].collaborator_invoked
        /\ frames[g].session_id # frames[f].session_id
        /\ ~IsNone(last_progress)

\* C32: a call with non-empty params has invoked neither its callback nor a
\* collaborator before it created its session state; it creates the state
\* with status running as it enters phase 1; and during its phases 1..12
\* its session has a state, so that a progress query of that session made
\* then is answered with a progress record, never with None.
C32_StateDuringPhases ==
    \A f \in Frames :
        LET fr == frames[f]
        IN  /\ fr.pc \in {"reset", "begin_lock", "begin_write"}
                  => /\ fr.phase = 0
                     /\ fr.callbacks = << >>
                     /\ ~fr.collaborator_invoked
            /\ InPhases(fr)
                  => /\ ValidParams(fr.data)
                     /\ fr.session_id \in DOMAIN execution_state
                     /\ ~IsNone(SessionProgress(fr.session_id))

C32_CreatedRunning ==
    \A f \in Frames :
        (frames[f].pc # "idle" /\ frames[f].phase = 0 /\ frames'[f].phase = 1)
            => /\ frames[f].session_id \in DOMAIN execution_state'
               /\ execution_state'[frames[f].session_id].status = "running"

C32_QueryAnswered ==
    (last_progress' # last_progress /\ frames' = frames) =>
        \A f \in Frames :
            (InPhases(frames[f]) /\ last_progress'.session_id = frames[f].session_id)
                => /\ last_progress'.status # "absent"
                   /\ ~IsNone(last_progress'.progress)

C32_StateBeforePipeline ==
    [](C32_StateDuringPhases) /\ [][C32_CreatedRunning /\ C32_QueryAnswered]_vars

\* A call past its sixth phase whose session was last queried while running,
\* the query answered with a record.
C32_Witness ==
    \E f \in Frames :
        /\ InPhases(frames[f])
        /\ frames[f].phase >= 7
        /\ ~IsNone(last_progress)
        /\ last_progress.session_id = frames[f].session_id
        /\ last_progress.status = "running"
        /\ ~IsNone(last_progress.progress)

\* C33: of a call that has returned and whose session id no other call with
\* params used, the returned record says success exactly when the state of
\* its session has status completed, and on success the execution_time of
\* the record is the execution_time stored in the session state.
C33_ResultAgreesWithState ==
    \A f \in Frames :
        (frames[f].pc = "returned" /\ OnlyCallOf(f)) =>
            LET sid == frames[f].session_id
                ret == frames[f].ret
            IN  /\ ret.success <=>
                      /\ sid \in DOMAIN execution_state
                      /\ execution_state[sid].status = "completed"
                /\ ret.success =>
                      /\ "execution_time" \in DOMAIN execution_state[sid]
                      /\ ret.execution_time = execution_state[sid].execution_time

\* One call has returned success after a run that took time, another, for
\* the other session, has returned failure from its except clause.
C33_Witness ==
    \E f, g \in Frames :
        /\ frames[f].pc = "returned"
        /\ frames[f].ret.success
        /\ frames[f].ret.execution_time > 0
        /\ frames[g].pc = "returned"
        /\ ~frames[g].ret.success
        /\ frames[g].aborted_by = "callback"
        /\ frames[g].session_id # frames[f].session_id

====
